---- MODULE Spec2Model ----
(***************************************************************************)
(* pyCLMS: the grid-reference-to-bounding-box conversion of                *)
(* pyclms/core/utils.py (osgrid2bbox and its region/offset table) and the  *)
(* credential handling of pyclms/core/authenticator.py (ClientBuilder).    *)
(*                                                                         *)
(* A Python str is a sequence of characters; a character is a one-letter   *)
(* TLA+ string, except the two characters whose behaviour under            *)
(* str.upper, str.lower and the re module differs from their look:         *)
(*   "LF"     the newline character, before which `$` also matches;        *)
(*   "U+212A" KELVIN SIGN, an uppercase letter outside A-Z whose           *)
(*            lowercase is the ASCII letter k.                             *)
(* The floats of the source (1e5 * i, 1e3, 1e4) only ever hold integers    *)
(* below 2^53, so float arithmetic followed by int() is integer arithmetic.*)
(***************************************************************************)
EXTENDS Integers, Sequences, FiniteSets, TLC

(***************************************************************************)
(* Bounds of the model                                                     *)
(***************************************************************************)
\* every str over Chars of at most this length is a gridref input
MaxLen == 3
\* longest digit string appended to a region prefix (12 is the first even
\* length the pattern rejects)
MaxDigits == 12

None == "None"

(***************************************************************************)
(* Region/offset table: _init_regions_and_offsets                          *)
(***************************************************************************)
\* the literal 13 x 7 layout, northernmost row first
regions ==
    <<
       << <<"H","L">>, <<"H","M">>, <<"H","N">>, <<"H","O">>, <<"H","P">>, <<"J","L">>, <<"J","M">> >>,
       << <<"H","Q">>, <<"H","R">>, <<"H","S">>, <<"H","T">>, <<"H","U">>, <<"J","Q">>, <<"J","R">> >>,
       << <<"H","V">>, <<"H","W">>, <<"H","X">>, <<"H","Y">>, <<"H","Z">>, <<"J","V">>, <<"J","W">> >>,
       << <<"N","A">>, <<"N","B">>, <<"N","C">>, <<"N","D">>, <<"N","E">>, <<"O","A">>, <<"O","B">> >>,
       << <<"N","F">>, <<"N","G">>, <<"N","H">>, <<"N","J">>, <<"N","K">>, <<"O","F">>, <<"O","G">> >>,
       << <<"N","L">>, <<"N","M">>, <<"N","N">>, <<"N","O">>, <<"N","P">>, <<"O","L">>, <<"O","M">> >>,
       << <<"N","Q">>, <<"N","R">>, <<"N","S">>, <<"N","T">>, <<"N","U">>, <<"O","Q">>, <<"O","R">> >>,
       << <<"N","V">>, <<"N","W">>, <<"N","X">>, <<"N","Y">>, <<"N","Z">>, <<"O","V">>, <<"O","W">> >>,
       << <<"S","A">>, <<"S","B">>, <<"S","C">>, <<"S","D">>, <<"S","E">>, <<"T","A">>, <<"T","B">> >>,
       << <<"S","F">>, <<"S","G">>, <<"S","H">>, <<"S","J">>, <<"S","K">>, <<"T","F">>, <<"T","G">> >>,
       << <<"S","L">>, <<"S","M">>, <<"S","N">>, <<"S","O">>, <<"S","P">>, <<"T","L">>, <<"T","M">> >>,
       << <<"S","Q">>, <<"S","R">>, <<"S","S">>, <<"S","T">>, <<"S","U">>, <<"T","Q">>, <<"T","R">> >>,
       << <<"S","V">>, <<"S","W">>, <<"S","X">>, <<"S","Y">>, <<"S","Z">>, <<"T","V">>, <<"T","W">> >>
    >>

\* regions[::-1]
Reversed(rows) == [k \in 1..Len(rows) |-> rows[Len(rows) + 1 - k]]

\* the transposition left out: the rows stay rows
ZipRowsNotTransposed(rows) == rows

\* list(zip(*rows)): element i of the result collects item i of every row
ZipRows(rows) ==
    IF Len(rows) = 0 THEN << >>
    ELSE [i \in 1..Len(rows[1]) |-> [j \in 1..Len(rows) |-> rows[j][i]]]

\* regions = list(zip(*regions[::-1]))
Transposed == ZipRows(Reversed(regions))

\* the row index used for both components
OffsetOfRowTwice(i, j) == << 100000 * i, 100000 * i >>

\* offset_map[region] = (1e5 * i, 1e5 * j), i and j being enumerate's
\* 0-based indices of the row in `Transposed` and of the code in the row
OffsetOf(i, j) == << 100000 * i, 100000 * j >>

\* the assignments of the double loop in the order it makes them: enumerate
\* visits the rows of `Transposed` (index i) and the codes of a row (index j)
Assignments ==
    IF Len(Transposed) = 0 THEN << >>
    ELSE LET w == Len(Transposed[1])
         IN  [k \in 1..(Len(Transposed) * w) |->
                 LET i == (k - 1) \div w
                     j == (k - 1) % w
                 IN  [region |-> Transposed[i + 1][j + 1],
                      offset |-> OffsetOf(i, j)]]

\* _init_regions_and_offsets()[1]: the dict those assignments leave; a later
\* assignment to a key replaces an earlier one
InitRegionsAndOffsets ==
    LET keys == {Assignments[k].region : k \in DOMAIN Assignments}
        last(r) == CHOOSE k \in DOMAIN Assignments :
                      /\ Assignments[k].region = r
                      /\ \A m \in DOMAIN Assignments :
                            Assignments[m].region = r => m <= k
    IN  [r \in keys |-> Assignments[last(r)].offset]

(***************************************************************************)
(* Python str operations used by osgrid2bbox                               *)
(***************************************************************************)
UpperAZ == {"A","B","C","D","E","F","G","H","I","J","K","L","M",
            "N","O","P","Q","R","S","T","U","V","W","X","Y","Z"}
LowerAZ == {"a","b","c","d","e","f","g","h","i","j","k","l","m",
            "n","o","p","q","r","s","t","u","v","w","x","y","z"}
Alphabet == <<"A","B","C","D","E","F","G","H","I","J","K","L","M",
              "N","O","P","Q","R","S","T","U","V","W","X","Y","Z">>
LowerAlphabet == <<"a","b","c","d","e","f","g","h","i","j","k","l","m",
                   "n","o","p","q","r","s","t","u","v","w","x","y","z">>
DigitChars == <<"0","1","2","3","4","5","6","7","8","9">>

\* the class \d, over the ASCII digits; the other decimal digits of Unicode
\* are matched by \d and read by int() in the same way
IsDigit(c) == \E d \in DOMAIN DigitChars : DigitChars[d] = c
\* the class [A-Z]
IsAZ(c) == c \in UpperAZ

\* str.upper of one character: a-z go to A-Z; KELVIN SIGN is already
\* uppercase and stays itself
UpperChar(c) ==
    IF c \in LowerAZ
    THEN Alphabet[CHOOSE k \in DOMAIN LowerAlphabet : LowerAlphabet[k] = c]
    ELSE c

\* str.lower of one character: A-Z go to a-z, KELVIN SIGN goes to "k"
LowerChar(c) ==
    IF c \in UpperAZ
    THEN LowerAlphabet[CHOOSE k \in DOMAIN Alphabet : Alphabet[k] = c]
    ELSE IF c = "U+212A" THEN "k" ELSE c

\* gridref.upper()
Upper(s) == [k \in DOMAIN s |-> UpperChar(s[k])]
Lower(s) == [k \in DOMAIN s |-> LowerChar(s[k])]

\* s[a:b] with Python's clamping of the bounds (0-based, b exclusive)
Slice(s, a, b) ==
    LET lo == IF a > Len(s) THEN Len(s) ELSE a
        hi == IF b > Len(s) THEN Len(s) ELSE b
    IN  IF hi <= lo THEN << >> ELSE SubSeq(s, lo + 1, hi)

\* int(s) of a digit string; osgrid2bbox never passes an empty one
DigitValue(c) == (CHOOSE d \in DOMAIN DigitChars : DigitChars[d] = c) - 1
RECURSIVE ParseInt(_)
ParseInt(s) ==
    IF Len(s) = 0 THEN 0
    ELSE 10 * ParseInt(SubSeq(s, 1, Len(s) - 1)) + DigitValue(s[Len(s)])

(***************************************************************************)
(* The two patterns.  A match is the record of its groups; when re.match   *)
(* returns None (match.groups() then raises AttributeError) `matched` is   *)
(* FALSE.  `coords` is bound only by the pattern with figures.             *)
(***************************************************************************)
NoMatch == [matched |-> FALSE, region |-> << >>, coords |-> << >>]

\* the digit counts of the alternation \d{2}|\d{4}|\d{6}|\d{8}|\d{10}
FigureCounts == {2, 4, 6, 8, 10}

\* `$` matches at the end of the string and just before a newline that is
\* the last character
AtDollar(s, pos) ==
    \/ pos = Len(s)
    \/ pos = Len(s) - 1 /\ s[Len(s)] = "LF"

\* the figures made optional, (\d{2}|...|\d{10})?: a bare code matches
MatchFiguresOptional(s) ==
    LET fits(n) == /\ Len(s) >= 2 + n
                   /\ IsAZ(s[1]) /\ IsAZ(s[2])
                   /\ \A k \in 3..(2 + n) : IsDigit(s[k])
                   /\ AtDollar(s, 2 + n)
    IN  IF \E n \in FigureCounts \cup {0} : fits(n)
        THEN LET n == CHOOSE n \in FigureCounts \cup {0} : fits(n)
             IN  [matched |-> TRUE, region |-> SubSeq(s, 1, 2),
                  coords |-> SubSeq(s, 3, 2 + n)]
        ELSE NoMatch

\* re.match(r"^([A-Z]{2})(\d{2}|\d{4}|\d{6}|\d{8}|\d{10})$", s).groups()
MatchFigures(s) ==
    LET fits(n) == /\ Len(s) >= 2 + n
                   /\ IsAZ(s[1]) /\ IsAZ(s[2])
                   /\ \A k \in 3..(2 + n) : IsDigit(s[k])
                   /\ AtDollar(s, 2 + n)
    IN  IF \E n \in FigureCounts : fits(n)
        THEN LET n == CHOOSE n \in FigureCounts : fits(n)
             IN  [matched |-> TRUE, region |-> SubSeq(s, 1, 2),
                  coords |-> SubSeq(s, 3, 2 + n)]
        ELSE NoMatch

\* the prefix pattern anchored at the end, ^([A-Z]{2})$
MatchPrefixAnchored(s) ==
    IF Len(s) >= 2 /\ IsAZ(s[1]) /\ IsAZ(s[2]) /\ AtDollar(s, 2)
    THEN [matched |-> TRUE, region |-> SubSeq(s, 1, 2), coords |-> << >>]
    ELSE NoMatch

\* re.match(r"^([A-Z]{2})", s).groups()[0]
MatchPrefix(s) ==
    IF Len(s) >= 2 /\ IsAZ(s[1]) /\ IsAZ(s[2])
    THEN [matched |-> TRUE, region |-> SubSeq(s, 1, 2), coords |-> << >>]
    ELSE NoMatch

(***************************************************************************)
(* osgrid2bbox                                                             *)
(***************************************************************************)
\* rescaling[os_cellsize]
rescaling ==
    [c \in {"1km", "10km"} |->
        IF c = "1km" THEN [coord_len |-> 2, scale_factor |-> 1000]
                     ELSE [coord_len |-> 1, scale_factor |-> 10000]]

\* the side added to x_min, y_min for "100km" and for "1km"/"10km"
Side100km == 100000
SideFigures == 10000

\* which of the three branches on os_cellsize runs
CellSizeBranch(cellsize) ==
    IF cellsize \in {"1km", "10km"} THEN "figures"
    ELSE IF cellsize = "100km" THEN "prefix"
    ELSE "invalid"

\* the match of the branch's pattern against the uppercased gridref
ParseGridref(g, cellsize) ==
    IF CellSizeBranch(cellsize) = "figures" THEN MatchFigures(g)
    ELSE MatchPrefix(g)

\* the side of the "1km"/"10km" box taken from the cell size
MetricBoxCellSide(table, parsed, cellsize) ==
    LET off == table[parsed.region]
    IN  IF cellsize = "100km"
        THEN [xmin |-> off[1], xmax |-> off[1] + Side100km,
              ymin |-> off[2], ymax |-> off[2] + Side100km]
        ELSE LET coords == parsed.coords
                 coord_len == rescaling[cellsize].coord_len
                 scale_factor == rescaling[cellsize].scale_factor
                 half == Len(coords) \div 2
                 easting == ParseInt(Slice(coords, 0, coord_len))
                 northing == ParseInt(Slice(coords, half, half + coord_len))
             IN  [xmin |-> easting * scale_factor + off[1],
                  xmax |-> easting * scale_factor + off[1] + scale_factor,
                  ymin |-> northing * scale_factor + off[2],
                  ymax |-> northing * scale_factor + off[2] + scale_factor]

\* bbox_27700 of a parsed reference whose region is a key of the table
MetricBox(table, parsed, cellsize) ==
    LET off == table[parsed.region]
    IN  IF cellsize = "100km"
        THEN [xmin |-> off[1], xmax |-> off[1] + Side100km,
              ymin |-> off[2], ymax |-> off[2] + Side100km]
        ELSE LET coords == parsed.coords
                 coord_len == rescaling[cellsize].coord_len
                 scale_factor == rescaling[cellsize].scale_factor
                 half == Len(coords) \div 2
                 easting == ParseInt(Slice(coords, 0, coord_len))
                 northing == ParseInt(Slice(coords, half, half + coord_len))
             IN  [xmin |-> easting * scale_factor + off[1],
                  xmax |-> easting * scale_factor + off[1] + SideFigures,
                  ymin |-> northing * scale_factor + off[2],
                  ymax |-> northing * scale_factor + off[2] + SideFigures]

\* Transformer.from_crs(27700, epsg, always_xy=True).transform(x, y): the
\* transformation into EPSG:27700 itself is the identity; the image of the
\* point in another CRS is a term of both source coordinates
Transform(target, x, y) ==
    IF target = 27700 THEN [x |-> x, y |-> y]
    ELSE [x |-> << "x", target, x, y >>, y |-> << "y", target, x, y >>]

\* the box returned from the metric box: its two corners transformed
Reproject(m, target) ==
    LET lo == Transform(target, m.xmin, m.ymin)
        hi == Transform(target, m.xmax, m.ymax)
    IN  [x_min |-> lo.x, x_max |-> hi.x, y_min |-> lo.y, y_max |-> hi.y]

\* the whole call: what it raises (None when it returns) and where, the
\* groups of the match, and the metric and the returned box; a box that was
\* never computed is the empty sequence, a computed one a 1-tuple
Raise(site) ==
    [exc |-> "BNGError", site |-> site, parsed |-> NoMatch,
     bbox_27700 |-> << >>, bbox |-> << >>]

Osgrid2bboxResult(table, ref, cellsize, target) ==
    LET g == Upper(ref)
        parsed == ParseGridref(g, cellsize)
    IN  IF CellSizeBranch(cellsize) = "invalid" THEN Raise("os_cellsize")
        ELSE IF ~parsed.matched THEN Raise("gridref")
        ELSE IF parsed.region \notin DOMAIN table THEN Raise("region")
        ELSE LET m == MetricBox(table, parsed, cellsize)
             IN  [exc |-> None, site |-> None, parsed |-> parsed,
                  bbox_27700 |-> << m >>, bbox |-> << Reproject(m, target) >>]

(***************************************************************************)
(* ClientBuilder                                                           *)
(***************************************************************************)
HDA_USER == "HDA_USER"
HDA_PASSWORD == "HDA_PASSWORD"

\* os.environ[key] = value: a value that is None raises TypeError and
\* leaves the environment as it was
SetEnv(env, key, value) ==
    IF value = None THEN [exc |-> "TypeError", environ |-> env]
    ELSE [exc |-> None, environ |-> [env EXCEPT ![key] = value]]

\* os.environ.pop(key): a key that is not set raises KeyError
PopEnv(env, key) ==
    IF env[key] = None THEN [exc |-> "KeyError", environ |-> env]
    ELSE [exc |-> None, environ |-> [env EXCEPT ![key] = None]]

NoConfig == [user |-> None, password |-> None]

\* _build_config(user, password); `typed` is what input() and getpass()
\* return when they are called.  `source` is the branch taken.
BuildConfig(env, u, p, typed) ==
    IF u = None /\ p = None
    THEN IF env[HDA_USER] # None /\ env[HDA_PASSWORD] # None
         THEN [exc |-> None, environ |-> env, source |-> "environment",
               config |-> [user |-> env[HDA_USER],
                           password |-> env[HDA_PASSWORD]]]
         ELSE [exc |-> None, source |-> "prompt",
               environ |-> [env EXCEPT ![HDA_USER] = typed.user,
                                       ![HDA_PASSWORD] = typed.password],
               config |-> typed]
    ELSE LET s1 == SetEnv(env, HDA_USER, u)
             s2 == SetEnv(s1.environ, HDA_PASSWORD, p)
         IN  IF s1.exc # None
             THEN [exc |-> s1.exc, environ |-> s1.environ,
                   source |-> "arguments", config |-> NoConfig]
             ELSE IF s2.exc # None
             THEN [exc |-> s2.exc, environ |-> s2.environ,
                   source |-> "arguments", config |-> NoConfig]
             ELSE [exc |-> None, environ |-> s2.environ,
                   source |-> "arguments",
                   config |-> [user |-> u, password |-> p]]

\* only HDA_USER removed when the token read raises
ValidateClientKeepsPassword(env, read) ==
    IF read = "token" THEN [exc |-> None, environ |-> env]
    ELSE LET p1 == PopEnv(env, HDA_USER)
         IN  IF p1.exc # None THEN p1
             ELSE [exc |-> "AuthenticationError", environ |-> p1.environ]

\* _validate_client(client); `read` is what reading client.token does:
\* "token" when it returns one, "Exception" when it raises an Exception
ValidateClient(env, read) ==
    IF read = "token" THEN [exc |-> None, environ |-> env]
    ELSE LET p1 == PopEnv(env, HDA_USER)
             p2 == PopEnv(p1.environ, HDA_PASSWORD)
         IN  IF p1.exc # None THEN p1
             ELSE IF p2.exc # None THEN p2
             ELSE [exc |-> "AuthenticationError", environ |-> p2.environ]

\* ClientBuilder(user, password): the exception that leaves the constructor
\* (None when it returns the client), the environment it leaves, the
\* configuration handed to hda.Client and whether the token was read
ClientBuilderResult(env, u, p, typed, read) ==
    LET b == BuildConfig(env, u, p, typed)
        v == ValidateClient(b.environ, read)
    IN  IF b.exc # None
        THEN [exc |-> b.exc, environ |-> b.environ, source |-> b.source,
              config |-> NoConfig, token |-> "unread"]
        ELSE [exc |-> v.exc, environ |-> v.environ, source |-> b.source,
              config |-> b.config, token |-> read]

(***************************************************************************)
(* Inputs                                                                  *)
(***************************************************************************)
\* the characters gridref inputs are made of
Chars == {"N", "T", "n", "k", "U+212A", "2", "LF", "-"}

\* every str over Chars of length at most MaxLen
ShortStrings == UNION {[1..k -> Chars] : k \in 0..MaxLen}

\* digit strings: the first L figures of two endlessly repeated references
DigitBases == {<<"2","7","5","5","0","6","2","9","5","0">>,
               <<"0","9","1","8","3","7","4","6","5","2">>}
Figures(base, L) == [k \in 1..L |-> base[((k - 1) % Len(base)) + 1]]
DigitStrings == {Figures(b, L) : b \in DigitBases, L \in 0..MaxDigits}

\* prefixes that are a region code, a code in lower or mixed case, a code
\* spelt with KELVIN SIGN, and two capitals that are no region code
Prefixes == {<<"N","T">>, <<"n","t">>, <<"N","k">>, <<"N","U+212A">>,
             <<"T","T">>, <<"S","V">>}
Suffixes == {<< >>, <<"LF">>, <<"-">>}

\* every code of the layout followed by the figures of NT2755062950
CodeStrings ==
    {regions[r][c] \o Figures(<<"2","7","5","5","0","6","2","9","5","0">>, L) :
        r \in DOMAIN regions, c \in 1..7, L \in 0..MaxDigits}

GridRefs ==
    ShortStrings \cup CodeStrings
        \cup {p \o d \o x : p \in Prefixes, d \in DigitStrings, x \in Suffixes}

CellSizes == {"1km", "10km", "100km", "20km"}
EPSGs == {27700, 4326}

\* the calls of the test suite and of download_lai.py
NT2755062950 == <<"N","T","2","7","5","5","0","6","2","9","5","0">>
NT2755072950 == <<"N","T","2","7","5","5","0","7","2","9","5","0">>
INVALID == <<"I","N","V","A","L","I","D">>
SampleCalls ==
    {[gridref |-> NT2755062950, os_cellsize |-> c, epsg |-> e] :
        c \in {"1km", "10km", "100km"}, e \in EPSGs}
    \cup {[gridref |-> INVALID, os_cellsize |-> "10km", epsg |-> 27700],
          [gridref |-> NT2755072950, os_cellsize |-> "20km", epsg |-> 27700],
          [gridref |-> NT2755072950, os_cellsize |-> "10km", epsg |-> 4326]}

\* user names and passwords passed, typed or found in the environment
\* (those of the test suite and one more of each)
Users == {"test_user", "mocked_user", "alice"}
Passwords == {"test_password", "mocked_password", "pw"}
TokenReads == {"token", "Exception"}

(***************************************************************************)
(* State                                                                   *)
(***************************************************************************)
VARIABLES
    _offset_map,   \* the module-level table
    gridref,       \* the arguments of the current osgrid2bbox call
    os_cellsize,
    epsg,
    pc,            \* "called": the call is pending; "done": it has ended;
                   \* "idle": no call of osgrid2bbox is made
    result,        \* Osgrid2bboxResult of the call that ended last
    environ,       \* os.environ at HDA_USER and HDA_PASSWORD, None if unset
    user,          \* the arguments of the ClientBuilder construction
    password,
    built          \* ClientBuilderResult of the construction that ended last

vars == << _offset_map, gridref, os_cellsize, epsg, pc, result,
           environ, user, password, built >>
utilsVars == << _offset_map, gridref, os_cellsize, epsg, pc, result >>
authVars == << environ, user, password, built >>

NoResult == [exc |-> None, site |-> None, parsed |-> NoMatch,
             bbox_27700 |-> << >>, bbox |-> << >>]
Unset == [k \in {HDA_USER, HDA_PASSWORD} |-> None]
NotBuilt == [exc |-> None, environ |-> Unset, source |-> None,
             config |-> NoConfig, token |-> "unread"]

Init ==
    /\ _offset_map = InitRegionsAndOffsets
    /\ gridref \in GridRefs
    /\ os_cellsize \in CellSizes
    /\ epsg \in EPSGs
    /\ pc = "called"
    /\ result = NoResult
    /\ environ = Unset
    /\ user = None /\ password = None
    /\ built = NotBuilt

\* one execution of osgrid2bbox(gridref, os_cellsize, epsg)
osgrid2bbox ==
    /\ pc = "called"
    /\ result' = Osgrid2bboxResult(_offset_map, gridref, os_cellsize, epsg)
    /\ pc' = "done"
    /\ UNCHANGED << _offset_map, gridref, os_cellsize, epsg >>
    /\ UNCHANGED authVars

\* the caller goes on to its next call
NextCall ==
    /\ pc = "done"
    /\ \E call \in SampleCalls :
          /\ gridref' = call.gridref
          /\ os_cellsize' = call.os_cellsize
          /\ epsg' = call.epsg
    /\ pc' = "called"
    /\ UNCHANGED << _offset_map, result >>
    /\ UNCHANGED authVars

Next == osgrid2bbox \/ NextCall

Spec == Init /\ [][Next]_vars

(***************************************************************************)
(* Constructions of ClientBuilder, one after another in one process        *)
(***************************************************************************)
InitAuth ==
    /\ _offset_map = InitRegionsAndOffsets
    /\ gridref = NT2755072950 /\ os_cellsize = "10km" /\ epsg = 4326
    /\ pc = "idle"
    /\ result = NoResult
    /\ environ \in [{HDA_USER, HDA_PASSWORD} -> Users \cup Passwords \cup {None}]
    /\ \A k \in {HDA_USER, HDA_PASSWORD} :
          environ[k] \in (IF k = HDA_USER THEN Users ELSE Passwords) \cup {None}
    /\ user = None /\ password = None
    /\ built = [NotBuilt EXCEPT !.environ = environ]

\* one construction ClientBuilder(user, password)
ClientBuilder ==
    /\ \E u \in Users \cup {None}, p \in Passwords \cup {None},
          typed \in [user : Users, password : Passwords],
          read \in TokenReads :
          /\ user' = u
          /\ password' = p
          /\ built' = ClientBuilderResult(environ, u, p, typed, read)
          /\ environ' = built'.environ
    /\ UNCHANGED utilsVars

NextAuth == ClientBuilder

SpecAuth == InitAuth /\ [][NextAuth]_vars

(***************************************************************************)
(* Properties of osgrid2bbox and of the region table                       *)
(***************************************************************************)
\* the set of codes written in the layout
LayoutCodes == {regions[r][c] : r \in DOMAIN regions, c \in 1..7}

Returned == pc = "done" /\ result.exc = None
Raised == pc = "done" /\ result.exc = "BNGError"
Box == result.bbox_27700[1]
U == Upper(gridref)
LeadingCode == Len(U) >= 2 /\ SubSeq(U, 1, 2) \in LayoutCodes

\* C1: for "100km", a gridref whose first two characters after uppercasing
\* are a region code R gets the box xmin = offset(R).easting, ymin =
\* offset(R).northing, xmax = xmin + 100000, ymax = ymin + 100000, whatever
\* follows the code; NT2755062950 gets 300000, 400000, 600000, 700000.
ClaimC1 ==
    (pc = "done" /\ os_cellsize = "100km" /\ LeadingCode) =>
        /\ Returned
        /\ LET off == _offset_map[SubSeq(U, 1, 2)]
           IN  Box = [xmin |-> off[1], xmax |-> off[1] + 100000,
                      ymin |-> off[2], ymax |-> off[2] + 100000]
        /\ gridref = NT2755062950 =>
              Box = [xmin |-> 300000, xmax |-> 400000,
                     ymin |-> 600000, ymax |-> 700000]

\* a "100km" call whose code is followed by something that is no figure
WitnessC1 ==
    /\ Returned /\ os_cellsize = "100km"
    /\ gridref = <<"n", "T", "-">>
    /\ Box.xmin = 300000 /\ Box.xmax = 400000

ClaimC3 ==
    (Returned /\ os_cellsize \in {"1km", "10km"}) =>
        LET D == result.parsed.coords
            n == Len(D) \div 2
            coord_len == IF os_cellsize = "10km" THEN 1 ELSE 2
            scale == IF os_cellsize = "10km" THEN 10000 ELSE 1000
            firstHalf == SubSeq(D, 1, n)
            secondHalf == SubSeq(D, n + 1, 2 * n)
            E == ParseInt(Slice(firstHalf, 0, coord_len))
            N == ParseInt(Slice(secondHalf, 0, coord_len))
            off == _offset_map[result.parsed.region]
        IN  /\ Box.xmin = off[1] + scale * E
            /\ Box.ymin = off[2] + scale * N
            /\ (gridref = NT2755062950 /\ os_cellsize = "10km") =>
                  Box.xmin = 320000 /\ Box.ymin = 660000
            /\ (gridref = NT2755062950 /\ os_cellsize = "1km") =>
                  Box.xmin = 327000 /\ Box.ymin = 662000

\* the uppercased gridref is two letters A-Z followed by only digits
LettersThenDigits ==
    /\ Len(U) >= 2 /\ IsAZ(U[1]) /\ IsAZ(U[2])
    /\ \A k \in 3..Len(U) : IsDigit(U[k])

\* C4: osgrid2bbox raises BNGError and returns no box when (a) the cell size
\* is none of "1km", "10km", "100km"; (b) the cell size is "1km" or "10km"
\* and the uppercased gridref is not two letters A-Z followed by only digits,
\* or its digit count is odd or greater than 10; (c) the two leading letters
\* are no code of the region table.
ClaimC4 ==
    LET a == os_cellsize \notin {"1km", "10km", "100km"}
        b == /\ os_cellsize \in {"1km", "10km"}
             /\ \/ ~LettersThenDigits
                \/ (Len(U) - 2) % 2 = 1
                \/ Len(U) - 2 > 10
        c == /\ Len(U) >= 2 /\ IsAZ(U[1]) /\ IsAZ(U[2])
             /\ SubSeq(U, 1, 2) \notin LayoutCodes
    IN  (pc = "done" /\ (a \/ b \/ c)) =>
            /\ result.exc = "BNGError"
            /\ result.bbox_27700 = << >>
            /\ result.bbox = << >>

ClaimC6 ==
    (Returned /\ os_cellsize = "1km") =>
        /\ Box.xmax = Box.xmin + 1000
        /\ Box.ymax = Box.ymin + 1000
        /\ gridref = NT2755062950 =>
              Box = [xmin |-> 327000, xmax |-> 328000,
                     ymin |-> 662000, ymax |-> 663000]

\* what a caller observes of a call: the exception type and the box
Outcome(ref) ==
    LET r == Osgrid2bboxResult(_offset_map, ref, os_cellsize, epsg)
    IN  << r.exc, r.bbox >>

\* C7: calling with g, with g lowercased and with g uppercased gives the
\* same outcome: the same box in all three calls or a BNGError in all three.
ClaimC7 ==
    pc = "done" =>
        /\ << result.exc, result.bbox >> = Outcome(Lower(gridref))
        /\ << result.exc, result.bbox >> = Outcome(Upper(gridref))

\* C8: the table has exactly the 91 codes of the layout as keys, each
\* written once in the layout; every offset component is a non-negative
\* multiple of 100000; no two codes share an offset (as many offsets as
\* codes); the offsets are the full 7 x 13 grid of 100000 m spacing anchored
\* at (0, 0); and the table is what the builder made, after calls that
\* returned and calls that raised.
ClaimC8 ==
    LET codes == DOMAIN _offset_map
        offsets == {_offset_map[r] : r \in codes}
        grid == {<< 100000 * i, 100000 * j >> : i \in 0..6, j \in 0..12}
    IN  /\ codes = LayoutCodes
        /\ Cardinality(codes) = 91
        /\ \A o \in offsets :
              /\ o[1] >= 0 /\ o[1] % 100000 = 0
              /\ o[2] >= 0 /\ o[2] % 100000 = 0
        /\ Cardinality(offsets) = Cardinality(codes)
        /\ offsets = grid
        /\ _offset_map = InitRegionsAndOffsets

\* a later call of the test suite has raised, after the first call ended
WitnessC8 ==
    /\ Raised /\ gridref = INVALID
    /\ Cardinality(DOMAIN _offset_map) = 91

\* C10: the code at (row_index, col_index) of the row-reversed 13 x 7 layout
\* has the offset (easting, northing) = (100000 * row_index, 100000 *
\* col_index).
ClaimC10 ==
    \A row_index \in 0..12, col_index \in 0..6 :
        _offset_map[Reversed(regions)[row_index + 1][col_index + 1]]
            = << 100000 * row_index, 100000 * col_index >>

\* C10 as amended: the code at (row_index, col_index) of the row-reversed
\* layout has the offset (easting, northing) = (100000 * col_index, 100000 *
\* row_index): columns run east, rows of the reversed layout run north.
ClaimC10Amended ==
    \A row_index \in 0..12, col_index \in 0..6 :
        _offset_map[Reversed(regions)[row_index + 1][col_index + 1]]
            = << 100000 * col_index, 100000 * row_index >>

\* the table holds a code whose row and column index differ, and a "100km"
\* call has used it
WitnessC10 ==
    /\ _offset_map[<<"H", "L">>] = <<0, 1200000>>
    /\ Returned /\ os_cellsize = "100km" /\ U = <<"T", "V">>
    /\ Box.xmin = 500000 /\ Box.ymin = 0

ClaimC11 ==
    built.source # None =>
        /\ \/ /\ built.exc = None
              /\ environ[HDA_USER] = built.config.user
              /\ environ[HDA_PASSWORD] = built.config.password
              /\ environ[HDA_USER] # None /\ environ[HDA_PASSWORD] # None
           \/ /\ built.exc = "AuthenticationError"
              /\ environ = Unset
        /\ (environ[HDA_USER] = None) = (environ[HDA_PASSWORD] = None)
        /\ built.exc # "KeyError"
====
